---- MODULE Spec2Model ----
(***************************************************************************)
(* A model of the llgo compilation driver (compiler.go) and of its         *)
(* defer/unwind lowering (defer.go).                                       *)
(*                                                                         *)
(*   Spec       the driver: NewCompiler, Compile, Module.Dispose           *)
(*   SpecLower  the lowering of functions: makeDeferBlock, VisitDeferStmt, *)
(*              createMainFunction's entry synthesis                       *)
(*                                                                         *)
(* Go strings are TLA+ strings; a nil error is the string "nil"; a nil     *)
(* pointer to a Module, and a nil basic block or value, is 0.              *)
(***************************************************************************)
EXTENDS Integers, Sequences, FiniteSets, TLC

VARIABLES
    targets,    \* names of the backend targets llvm.FirstTarget() enumerates
    session,    \* the compiler NewCompiler returned: triple, pnacl, machine, module
    ncres,      \* the last NewCompiler call: its argument and its outcome
    modules,    \* every Module that Compile created, by creation order
    cin,        \* the last Compile call: its arguments and what its collaborators did
    cres,       \* the last Compile call: its outcome
    held,       \* the modules the caller holds: those a Compile returned to it
    op,         \* the operation that ran last
    \* the lowering of one package into one module
    funs,       \* the function contexts (*function), by creation order
    functions,  \* c.functions: the stack of the functions being lowered
    blocks,     \* the basic blocks of the module: owner and instructions
    decls,      \* the functions declared in the module, by declaration order
    cursor,     \* the block the builder inserts into (0: none)
    nvals,      \* the values numbered so far
    lst,        \* "lowering", "panicked" or "done"
    lop         \* the lowering step that ran last

drv == <<targets, session, ncres, modules, cin, cres, held, op>>
low == <<funs, functions, blocks, decls, cursor, nvals, lst, lop>>
vars == <<drv, low>>

Nil == "nil"

\* ------------------------------------------------------------------ bounds

MaxModules == 1
MaxDisposals == 2
MaxFuncs == 2

\* ------------------------------------------------------------------ strings

Upper == <<"A","B","C","D","E","F","G","H","I","J","K","L","M",
           "N","O","P","Q","R","S","T","U","V","W","X","Y","Z">>
Lower == <<"a","b","c","d","e","f","g","h","i","j","k","l","m",
           "n","o","p","q","r","s","t","u","v","w","x","y","z">>

ToLowerRune(ch) ==
    IF \E i \in 1..26 : Upper[i] = ch
    THEN Lower[CHOOSE i \in 1..26 : Upper[i] = ch]
    ELSE ch

RECURSIVE ToLower(_)
ToLower(s) ==
    IF Len(s) = 0 THEN ""
    ELSE ToLowerRune(SubSeq(s, 1, 1)) \o ToLower(SubSeq(s, 2, Len(s)))

\* strings.IndexRune: the 0-based index of the first ch in s, -1 when there is none
IndexRune(s, ch) ==
    IF \E i \in 1..Len(s) : SubSeq(s, i, i) = ch
    THEN (CHOOSE i \in 1..Len(s) :
             /\ SubSeq(s, i, i) = ch
             /\ \A j \in 1..(i - 1) : SubSeq(s, j, j) # ch) - 1
    ELSE -1

HasPrefix(s, p) == Len(s) >= Len(p) /\ SubSeq(s, 1, Len(p)) = p

\* strings.Contains
Contains(s, sub) ==
    \E i \in 0..(Len(s) - Len(sub)) : SubSeq(s, i + 1, i + Len(sub)) = sub

\* ------------------------------------------------------------------ target resolution

PNaClTriple == "armv7-none-linux-gnueabi"

parseArch(arch) ==
    CASE arch \in {"i386", "i486", "i586", "i686", "i786", "i886", "i986"} -> "x86"
      [] arch \in {"amd64", "x86_64"} -> "x86-64"
      [] arch = "powerpc" -> "ppc"
      [] arch \in {"powerpc64", "ppu"} -> "ppc64"
      [] arch = "mblaze" -> "mblaze"
      [] arch \in {"arm", "xscale"} -> "arm"
      [] arch = "thumb" -> "thumb"
      [] arch \in {"spu", "cellspu"} -> "cellspu"
      [] arch = "msp430" -> "msp430"
      [] arch \in {"mips", "mipseb", "mipsallegrex"} -> "mips"
      [] arch \in {"mipsel", "mipsallegrexel"} -> "mipsel"
      [] arch \in {"mips64", "mips64eb"} -> "mips64"
      [] arch = "mipsel64" -> "mipsel64"
      [] arch \in {"r600", "hexagon", "sparc", "sparcv9", "tce",
                   "xcore", "nvptx", "nvptx64", "le32", "amdil"} -> arch
      [] OTHER -> IF HasPrefix(arch, "armv") THEN "arm"
                  ELSE IF HasPrefix(arch, "thumbv") THEN "thumb"
                  ELSE "unknown"

\* The triples a caller passes in CompilerOptions.TargetTriple.
Triples ==
    {"x86_64-unknown-linux-gnu", "i686-pc-linux-gnu", "armv7-none-linux-gnueabi",
     "foo-bar-baz", "thumbv7-apple-ios", "pnacl", "PNaCl", "x86_64", "foo", ""}

\* The sets of targets an LLVM build may have registered.
TargetSets == {{}, {"x86", "x86-64"}, {"x86", "x86-64", "arm", "thumb"}}

NoSession == [triple |-> "", pnacl |-> FALSE, machine |-> Nil, module |-> 0]

\* NewCompiler's result for opts.TargetTriple = t: kind "ok" (a compiler),
\* "error" (nil, err) or "panic" (the slice expression triple[:-1]).
NewCompilerResult(t) ==
    LET pnacl  == ToLower(t) = "pnacl"
        triple == IF pnacl THEN PNaClTriple ELSE t
        dash   == IndexRune(triple, "-")
    IN  IF dash < 0
        THEN [kind |-> "panic", msg |-> "slice bounds out of range",
              compiler |-> NoSession]
        ELSE LET arch == parseArch(SubSeq(triple, 1, dash))
             IN  IF arch \in targets
                 THEN [kind |-> "ok", msg |-> Nil,
                       compiler |-> [triple |-> triple, pnacl |-> pnacl,
                                     machine |-> arch, module |-> 0]]
                 ELSE [kind |-> "error",
                       msg |-> "Invalid target triple: " \o triple,
                       compiler |-> NoSession]

NewCompiler(t) ==
    LET r == NewCompilerResult(t)
    IN  /\ ncres' = [input |-> t, kind |-> r.kind, msg |-> r.msg]
        /\ session' = r.compiler
        /\ op' = "NewCompiler"
        /\ UNCHANGED <<targets, modules, cin, cres, held, low>>

\* ------------------------------------------------------------------ Module

NewModule(name) ==
    [Name |-> name, Disposed |-> FALSE, backend |-> 0, funcs |-> {}]

\* Module.Dispose on modules[i]. The receiver is a value: the method works on
\* m, a copy of the caller's struct, and the copy is dropped at return. The
\* embedded llvm.Module is a handle, so the copy disposes the same backend
\* module; backend counts the disposals of it.
ModuleDispose(mods, i) ==
    LET m    == mods[i]
        copy == IF ~m.Disposed THEN [m EXCEPT !.Disposed = TRUE] ELSE m
    IN  IF ~m.Disposed
        THEN [mods EXCEPT ![i].backend = @ + 1]
        ELSE mods

\* ------------------------------------------------------------------ Compile

\* What the front-end collaborators report: llgobuild.Context, parseFiles,
\* the name of the parsed package, and pkginfo.Err of CreatePackage.
\* At most one of them fails in a call: Compile stops at the first failure.
FrontEnds ==
    {fe \in [ctx : {Nil, "ErrContext"}, parse : {Nil, "ErrParse"},
             pkgname : {"main", "lib"}, pkgerr : {Nil, "ErrTypeCheck"}] :
        Cardinality({f \in {"ctx", "parse", "pkgerr"} : fe[f] # Nil}) <= 1}

\* The error the front end reported in a call, nil when it reported none.
Reported(fe) ==
    IF fe.ctx # Nil THEN fe.ctx
    ELSE IF fe.parse # Nil THEN fe.parse
    ELSE fe.pkgerr

\* The steps of Compile that follow the creation of the module, in order.
Steps == <<"NewFunctionCache", "NewTypeMap", "newBuilder", "Build",
           "translatePackage", "createMainFunction", "Export">>

PanicValues == {"ErrInvariant", "ErrBlock"}

\* What the back end does: the step that panics (if any) and the value it
\* panics with, whether translation defined main.main, what Export returns.
\* A run that panics is one whose earlier steps went well.
BackEnds ==
    {be \in [panicAt : {Nil} \cup {Steps[i] : i \in 1..Len(Steps)},
             value : PanicValues, hasMain : BOOLEAN,
             exporterr : {Nil, "ErrExport"}] :
        be.panicAt # Nil => be.hasMain /\ be.exporterr = Nil}

ImportPaths == {"", "main", "lib"}

\* A plain "defer compiler.module.Dispose()" in place of the guard.
DisposeAtEveryExit(mods, i, e) ==
    [modules |-> ModuleDispose(mods, i), value |-> e]

\* The function Compile defers once the module exists, run at every exit
\* that follows: e is what recover() returns, nil unless a step panicked.
\* On a panic the module is disposed and the same value is raised again.
DisposeOnPanic(mods, i, e) ==
    [modules |-> IF e # Nil THEN ModuleDispose(mods, i) ELSE mods,
     value   |-> e]

\* An exit of Compile before the module is created: no deferred function yet.
Return(err) ==
    [kind |-> "return", m |-> 0, err |-> err, value |-> Nil,
     session |-> session, modules |-> modules, importpath |-> "", raised |-> Nil]

\* An exit of Compile after the module is created: return (m, err) when e is
\* nil, and a panic with e else. The deferred function runs first.
Exit(m, err, e, ses, mods, importpath) ==
    LET g == DisposeOnPanic(mods, ses.module, e)
    IN  [kind |-> IF g.value # Nil THEN "panic" ELSE "return",
         m |-> IF g.value # Nil THEN 0 ELSE m,
         err |-> IF g.value # Nil THEN Nil ELSE err,
         value |-> g.value, session |-> ses, modules |-> g.modules,
         importpath |-> importpath, raised |-> e]

\* createMainFunction on module mod: the error it returns and the module after.
createMainFunction(mod) ==
    IF "main.main" \notin mod.funcs
    THEN [err |-> "Could not find main.main", mod |-> mod]
    ELSE [err |-> Nil,
          mod |-> [mod EXCEPT !.funcs = @ \cup {"runtime.main", "main"}]]

CompileResult(importpath0, fe, be) ==
    IF fe.ctx # Nil THEN Return(fe.ctx)
    ELSE IF fe.parse # Nil THEN Return(fe.parse)
    ELSE
    LET err        == fe.parse
        importpath == IF importpath0 = "" \/ fe.pkgname = "main"
                      THEN fe.pkgname ELSE importpath0
    IN
    IF fe.pkgerr # Nil THEN Return(err)
    ELSE
    LET id     == Len(modules) + 1
        mods0  == Append(modules, NewModule(importpath))
        ses0   == [session EXCEPT !.module = id]
        panics(s) == be.panicAt = s
        \* mainpkg.Build and translatePackage fill the module
        funcs  == {importpath \o ".init"} \cup
                  (IF be.hasMain /\ importpath = "main" THEN {"main.main"} ELSE {})
        mods1  == [mods0 EXCEPT ![id].funcs = funcs]
    IN
    IF \E i \in 1..4 : panics(Steps[i]) THEN Exit(0, Nil, be.value, ses0, mods0, importpath)
    ELSE IF panics("translatePackage") THEN Exit(0, Nil, be.value, ses0, mods1, importpath)
    ELSE IF importpath = "main"
    THEN LET r == createMainFunction(mods1[id])
             mods2 == [mods1 EXCEPT ![id] = r.mod]
         IN  IF r.err # Nil THEN Exit(0, r.err, Nil, ses0, mods1, importpath)
             ELSE IF panics("createMainFunction")
             THEN Exit(0, Nil, be.value, ses0, mods2, importpath)
             ELSE Exit(id, Nil, Nil, ses0, mods2, importpath)
    ELSE IF panics("Export") THEN Exit(0, Nil, be.value, ses0, mods1, importpath)
         ELSE IF be.exporterr # Nil THEN Exit(0, be.exporterr, Nil, ses0, mods1, importpath)
         ELSE Exit(id, Nil, Nil, ses0, mods1, importpath)

\* cin keeps of the call: the import path Compile settled on, the error the
\* front end reported, and the value a step panicked with. cres.created is
\* the module the call made (0: none).
Compile(importpath, fe, be) ==
    /\ session.machine # Nil
    /\ Len(modules) < MaxModules
    /\ LET r == CompileResult(importpath, fe, be)
       IN  /\ cres' = [kind |-> r.kind, m |-> r.m, err |-> r.err, value |-> r.value,
                       created |-> IF Len(r.modules) > Len(modules)
                                   THEN Len(r.modules) ELSE 0]
           /\ session' = r.session
           /\ modules' = r.modules
           /\ held' = IF r.m # 0 THEN held \cup {r.m} ELSE held
           /\ cin' = [importpath |-> r.importpath, reported |-> Reported(fe),
                      raised |-> r.raised]
    /\ op' = "Compile"
    /\ UNCHANGED <<targets, ncres, low>>

\* The caller calls Dispose on a module it holds.
Dispose(i) ==
    /\ i \in held
    /\ modules[i].backend < MaxDisposals
    /\ modules' = ModuleDispose(modules, i)
    /\ op' = "Dispose"
    /\ UNCHANGED <<targets, session, ncres, cin, cres, held, low>>

\* ------------------------------------------------------------------ go/ast

\* A node of the syntax tree: its kind, its name (identifiers) and its
\* children in the order ast.Inspect visits them.
Node(kind, name, kids) == [kind |-> kind, name |-> name, kids |-> kids]

NoNode == Node("none", "", <<>>)

Ident(n) == Node("Ident", n, <<>>)
CallExpr(fun, args) == Node("CallExpr", "", <<fun>> \o args)
FuncLit(body) == Node("FuncLit", "", <<body>>)
BlockStmt(list) == Node("BlockStmt", "", list)
DeferStmt(call) == Node("DeferStmt", "", <<call>>)
GoStmt(call) == Node("GoStmt", "", <<call>>)
ExprStmt(x) == Node("ExprStmt", "", <<x>>)
AssignStmt(lhs, rhs) == Node("AssignStmt", "", <<lhs, rhs>>)

\* hasDefer: ast.Inspect calls the function on a node and, when it returns
\* true, on the node's children in order; hasdefer is the captured variable.
RECURSIVE InspectDefer(_, _), InspectDeferList(_, _)
InspectDefer(n, hasdefer) ==
    IF hasdefer THEN hasdefer
    ELSE CASE n.kind = "DeferStmt" -> TRUE
           [] n.kind = "FuncLit" -> hasdefer
           [] OTHER -> InspectDeferList(n.kids, hasdefer)
InspectDeferList(kids, hasdefer) ==
    IF kids = <<>> THEN hasdefer
    ELSE InspectDeferList(Tail(kids), InspectDefer(Head(kids), hasdefer))

hasDefer(body) == InspectDefer(body, FALSE)

\* hasCallExpr, likewise; hascall is the captured variable.
RECURSIVE InspectCall(_, _), InspectCallList(_, _)
InspectCall(n, hascall) ==
    IF hascall THEN hascall
    ELSE CASE n.kind \in {"GoStmt", "DeferStmt"} -> hascall
           [] n.kind = "CallExpr" -> TRUE
           [] n.kind = "FuncLit" -> hascall
           [] OTHER -> InspectCallList(n.kids, hascall)
InspectCallList(kids, hascall) ==
    IF kids = <<>> THEN hascall
    ELSE InspectCallList(Tail(kids), InspectCall(Head(kids), hascall))

hasCallExpr(body) == InspectCall(body, FALSE)

\* The statements of the bodies that are lowered.
DeferA == DeferStmt(CallExpr(Ident("A"), <<>>))
DeferB == DeferStmt(CallExpr(Ident("B"), <<>>))
DeferC == DeferStmt(CallExpr(Ident("C"), <<>>))
\* defer A(x, y)
DeferArgs == DeferStmt(CallExpr(Ident("A"), <<Ident("x"), Ident("y")>>))
\* defer A(g())
DeferNested == DeferStmt(CallExpr(Ident("A"), <<CallExpr(Ident("g"), <<>>)>>))
\* h()
CallH == ExprStmt(CallExpr(Ident("h"), <<>>))
\* go h()
GoH == GoStmt(CallExpr(Ident("h"), <<>>))
\* defer func() { defer B() }()
DeferLit == DeferStmt(CallExpr(FuncLit(BlockStmt(<<DeferB>>)), <<>>))
\* x = func() { h() }
AssignLit == AssignStmt(Ident("x"), FuncLit(BlockStmt(<<CallH>>)))
\* { h() }
InnerCall == BlockStmt(<<CallH>>)

Bodies ==
    {BlockStmt(<<DeferA>>),
     BlockStmt(<<DeferA, CallH>>),
     BlockStmt(<<DeferA, DeferB, DeferC>>),
     BlockStmt(<<DeferArgs, GoH>>),
     BlockStmt(<<DeferNested>>),
     BlockStmt(<<DeferA, DeferLit, DeferC>>),
     BlockStmt(<<DeferC, InnerCall>>),
     BlockStmt(<<DeferA, AssignLit>>),
     BlockStmt(<<CallH>>)}

\* The numbers of results of a lowered function: none, one, several.
ResultCounts == {0, 1, 2}

\* The first function literal of a node, in the order of evaluation
\* (NoNode when it has none).
RECURSIVE FirstLit(_), FirstLitList(_)
FirstLit(n) ==
    IF n.kind = "FuncLit" THEN n ELSE FirstLitList(n.kids)
FirstLitList(kids) ==
    IF kids = <<>> THEN NoNode
    ELSE IF FirstLit(Head(kids)) # NoNode THEN FirstLit(Head(kids))
    ELSE FirstLitList(Tail(kids))

\* ------------------------------------------------------------------ the module under construction

\* An instruction: its opcode, the declared function it names (a callee, a
\* personality), its operands and the value it defines (value numbers, 0:
\* none), the block it branches to, a landing pad's clauses, and, for the
\* code of an expression or statement, the syntax it was generated from.
Inst(o) ==
    [op |-> o, fn |-> 0, args |-> <<>>, val |-> 0, tgt |-> 0,
     clauses |-> <<>>, expr |-> NoNode]

\* llvm.AddBasicBlock: an empty block of function fi
NewBlock(fi) == [fn |-> fi, insts |-> <<>>]

\* the builder appends at the end of block b
Emit(blks, b, i) == [blks EXCEPT ![b].insts = Append(@, i)]
EmitAll(blks, b, is) == [blks EXCEPT ![b].insts = @ \o is]

\* BasicBlock.MoveAfter: block b moves to right after block pos
MoveAfter(layout, b, pos) ==
    LET rest == SelectSeq(layout, LAMBDA x : x # b)
        i    == CHOOSE k \in 1..Len(rest) : rest[k] = pos
    IN  SubSeq(rest, 1, i) \o <<b>> \o SubSeq(rest, i + 1, Len(rest))

\* llvm.Module.NamedFunction: the first declaration of the name, 0 (nil)
\* when the module has none
ModuleNamedFunction(ds, name) ==
    IF \E i \in 1..Len(ds) : ds[i] = name
    THEN CHOOSE i \in 1..Len(ds) :
            ds[i] = name /\ \A j \in 1..(i - 1) : ds[j] # name
    ELSE 0

\* FunctionCache.NamedFunction and RuntimeFunction: the declarations of the
\* module after the named runtime routine was asked for (declared on demand,
\* memoized by name).
NamedFunction(ds, name) ==
    IF ModuleNamedFunction(ds, name) # 0 THEN ds ELSE Append(ds, name)

top(fs) == fs[Len(fs)]

FuncName(i) == IF i = 1 THEN "main.main" ELSE "main.f" \o ToString(i)

\* A function context as its lowering starts (buildFunction): the function is
\* declared, its entry block holds the storage of its results, and the
\* builder inserts there. saved is the block to return to afterwards.
NewFunction(body, nres, saved) ==
    LET fi    == Len(funs) + 1
        entry == Len(blocks) + 1
        slots == [i \in 1..nres |-> nvals + i]
    IN  [f |-> [body |-> body, pos |-> 0, litdone |-> FALSE,
                epi |-> IF hasDefer(body) THEN "pending" ELSE "none",
                deferptr |-> 0, deferblock |-> 0, unwindblock |-> 0,
                results |-> slots, entry |-> entry, layout |-> <<entry>>,
                saved |-> saved],
         block |-> [fn |-> fi,
                    insts |-> [i \in 1..nres |->
                                  [Inst("alloca") EXCEPT !.val = slots[i]]]]]

Enter(body, nres, saved) ==
    LET n == NewFunction(body, nres, saved)
    IN  /\ funs' = Append(funs, n.f)
        /\ functions' = Append(functions, Len(funs) + 1)
        /\ blocks' = Append(blocks, n.block)
        /\ decls' = Append(decls, FuncName(Len(funs) + 1))
        /\ cursor' = n.f.entry
        /\ nvals' = nvals + nres
        /\ UNCHANGED lst

\* The lowering of a function declaration starts.
EnterFunction(body, nres) ==
    /\ lst = "lowering"
    /\ functions = <<>>
    /\ Len(funs) < MaxFuncs
    /\ Enter(body, nres, 0)
    /\ lop' = "EnterFunction"
    /\ UNCHANGED drv

\* The statement that the function on top of the stack lowers next.
NextStmt(f) == f.body.kids[f.pos + 1]

Lowering(f) == f.epi \in {"none", "done"} /\ f.pos < Len(f.body.kids)

\* The lowering of the statement reaches a function literal: the literal is
\* lowered as a function of its own, before the code of the statement.
EnterFuncLit ==
    /\ lst = "lowering"
    /\ functions # <<>>
    /\ Len(funs) < MaxFuncs
    /\ LET f == funs[top(functions)]
       IN  /\ Lowering(f)
           /\ ~f.litdone
           /\ FirstLit(NextStmt(f)) # NoNode
           /\ Enter(FirstLit(NextStmt(f)).kids[1], 0, cursor)
    /\ lop' = "EnterFuncLit"
    /\ UNCHANGED drv

\* The function on top of the stack is lowered: it is popped and the builder
\* returns to where it was.
LeaveFunction ==
    /\ lst = "lowering"
    /\ functions # <<>>
    /\ LET fi   == top(functions)
           f    == funs[fi]
           rest == SubSeq(functions, 1, Len(functions) - 1)
       IN  /\ f.epi \in {"none", "done"}
           /\ f.pos = Len(f.body.kids)
           /\ functions' = rest
           /\ cursor' = f.saved
           /\ funs' = IF rest = <<>> THEN funs
                      ELSE [funs EXCEPT ![top(rest)].litdone = TRUE]
    /\ lop' = "LeaveFunction"
    /\ UNCHANGED <<blocks, decls, nvals, lst, drv>>

\* A statement other than a defer statement is lowered at the cursor.
VisitStmt ==
    /\ lst = "lowering"
    /\ functions # <<>>
    /\ LET fi == top(functions)
           f  == funs[fi]
       IN  /\ Lowering(f)
           /\ NextStmt(f).kind # "DeferStmt"
           /\ FirstLit(NextStmt(f)) # NoNode => f.litdone
           /\ blocks' = Emit(blocks, cursor,
                             [Inst("stmt") EXCEPT !.expr = NextStmt(f)])
           /\ funs' = [funs EXCEPT ![fi].pos = @ + 1, ![fi].litdone = FALSE]
    /\ lop' = "VisitStmt"
    /\ UNCHANGED <<functions, decls, cursor, nvals, lst, drv>>

\* ------------------------------------------------------------------ makeDeferBlock

PersonalityName == "__gxx_personality_v0"

\* llvm.AddFunction without the lookup that precedes it.
PersonalityAddedAgain(ds) ==
    [decls |-> Append(ds, PersonalityName), pers |-> Len(ds) + 1]

\* The personality function of a landing pad: the module's declaration of
\* that name, added when the module has none.
Personality(ds) ==
    LET pers == ModuleNamedFunction(ds, PersonalityName)
    IN  IF pers = 0
        THEN [decls |-> Append(ds, PersonalityName), pers |-> Len(ds) + 1]
        ELSE [decls |-> ds, pers |-> pers]

\* A landing pad that falls through: the branch to the defer block is missing.
LandingPadNoBranch(pers, deferblock, v) ==
    <<[Inst("landingpad") EXCEPT !.fn = pers, !.clauses = <<"null">>, !.val = v]>>

\* The content of the unwind block: a landing pad with the catch-all clause
\* and a branch to the defer block.
LandingPad(pers, deferblock, v) ==
    <<[Inst("landingpad") EXCEPT !.fn = pers, !.clauses = <<"null">>, !.val = v],
      [Inst("br") EXCEPT !.tgt = deferblock]>>

\* The return instruction of the defer block.
RealReturn(results) ==
    IF Len(results) = 0 THEN Inst("retvoid")
    ELSE IF Len(results) = 1 THEN [Inst("ret") EXCEPT !.args = <<results[1]>>]
    ELSE [Inst("aggret") EXCEPT !.args = results]

\* The restore as a last statement instead of a deferred call: a panic skips it.
RestoreOnReturnOnly(currblock, last, e) ==
    IF e # Nil THEN last ELSE currblock

\* The deferred c.builder.SetInsertPointAtEnd(currblock): where the builder
\* inserts when makeDeferBlock is left from block last, by a return (e is
\* nil) or by a panic with e.
ExitInsertPoint(currblock, last, e) == currblock

\* The calls of makeDeferBlock that may panic.
PanicPoints == {"createTypeMalloc", "NamedFunction", "LLVMValue"}

makeDeferBlock(p) ==
    /\ lst = "lowering"
    /\ functions # <<>>
    /\ LET fi == top(functions)
           f  == funs[fi]
           currblock == cursor
           \* f.deferptr = c.createTypeMalloc(...)
           deferptr == nvals + 1
           b1 == Emit(blocks, currblock, [Inst("malloc") EXCEPT !.val = deferptr])
           \* f.deferblock = llvm.AddBasicBlock(...)
           deferblock == Len(b1) + 1
           b2 == Append(b1, NewBlock(fi))
           l2 == Append(f.layout, deferblock)
           \* if hasCallExpr(body) { ... } else { ... }
           hascall == hasCallExpr(f.body)
           unwindblock == IF hascall THEN Len(b2) + 1 ELSE f.unwindblock
           b3 == IF hascall THEN Append(b2, NewBlock(fi)) ELSE b2
           l3 == IF hascall
                 THEN MoveAfter(MoveAfter(Append(l2, unwindblock), unwindblock, currblock),
                                deferblock, unwindblock)
                 ELSE MoveAfter(l2, deferblock, currblock)
           \* if !f.unwindblock.IsNil() { ... }
           pers == Personality(decls)
           b4 == IF unwindblock # 0
                 THEN EmitAll(b3, unwindblock, LandingPad(pers.pers, deferblock, deferptr + 1))
                 ELSE b3
           d4 == IF unwindblock # 0 THEN pers.decls ELSE decls
           n4 == IF unwindblock # 0 THEN deferptr + 1 ELSE deferptr
           \* ptrval := c.builder.CreateLoad(f.deferptr, "")
           ptrval == n4 + 1
           b5 == Emit(b4, deferblock,
                      [Inst("load") EXCEPT !.args = <<deferptr>>, !.val = ptrval])
           \* rundefers := c.NamedFunction(...); c.builder.CreateCall(...)
           d6 == NamedFunction(d4, "runtime.rundefers")
           b6 == Emit(b5, deferblock,
                      [Inst("call") EXCEPT
                          !.fn = ModuleNamedFunction(d6, "runtime.rundefers"),
                          !.args = <<ptrval>>])
           \* the return of f.results
           b7 == Emit(b6, deferblock, RealReturn(f.results))
           f1 == [f EXCEPT !.deferptr = deferptr, !.deferblock = deferblock,
                           !.unwindblock = unwindblock, !.layout = l3]
       IN  /\ f.epi = "pending"
           /\ p = "LLVMValue" => f.results # <<>>
           /\ CASE p = "createTypeMalloc" ->
                    /\ funs' = [funs EXCEPT ![fi].epi = "panicked"]
                    /\ cursor' = ExitInsertPoint(currblock, currblock, p)
                    /\ UNCHANGED <<blocks, decls, nvals>>
                [] p = "NamedFunction" ->
                    /\ funs' = [funs EXCEPT ![fi] = [f1 EXCEPT !.epi = "panicked"]]
                    /\ cursor' = ExitInsertPoint(currblock, deferblock, p)
                    /\ blocks' = b5 /\ decls' = d4 /\ nvals' = ptrval
                [] p = "LLVMValue" ->
                    /\ funs' = [funs EXCEPT ![fi] = [f1 EXCEPT !.epi = "panicked"]]
                    /\ cursor' = ExitInsertPoint(currblock, deferblock, p)
                    /\ blocks' = b6 /\ decls' = d6 /\ nvals' = ptrval
                [] OTHER ->
                    /\ funs' = [funs EXCEPT ![fi] = [f1 EXCEPT !.epi = "done"]]
                    /\ cursor' = ExitInsertPoint(currblock, deferblock, p)
                    /\ blocks' = b7 /\ decls' = d6 /\ nvals' = ptrval
    /\ lst' = IF p = Nil THEN "lowering" ELSE "panicked"
    /\ lop' = "makeDeferBlock"
    /\ UNCHANGED <<functions, drv>>

\* ------------------------------------------------------------------ VisitDeferStmt

\* The operands of the call in the wrong order.
PushDeferSwapped(pushdefer, funcval, deferptr) ==
    [Inst("call") EXCEPT !.fn = pushdefer, !.args = <<deferptr, funcval>>]

\* c.builder.CreateCall(pushdefer, {funcval, f.deferptr})
PushDefer(pushdefer, funcval, deferptr) ==
    [Inst("call") EXCEPT !.fn = pushdefer, !.args = <<funcval, deferptr>>]

VisitDeferStmt ==
    /\ lst = "lowering"
    /\ functions # <<>>
    /\ LET fi   == top(functions)
           g    == funs[fi]
           stmt == NextStmt(g)
           call == stmt.kids[1]
           fun  == call.kids[1]
           args == Tail(call.kids)
           \* fn := c.VisitExpr(stmt.Call.Fun)
           fn     == nvals + 1
           evalfn == [Inst("eval") EXCEPT !.expr = fun, !.val = fn]
           \* args := c.evalCallArgs(fntype, stmt.Call.Args)
           argv     == [i \in 1..Len(args) |-> fn + i]
           evalargs == [i \in 1..Len(args) |->
                          [Inst("eval") EXCEPT !.expr = args[i], !.val = argv[i]]]
           \* f := c.functions.top()
           f == funs[top(functions)]
           \* pushdefer := c.NamedFunction("runtime.pushdefer", ...)
           d1 == NamedFunction(decls, "runtime.pushdefer")
           pushdefer == ModuleNamedFunction(d1, "runtime.pushdefer")
           \* funcval := c.indirectFunction(fn, args, ...)
           funcval == fn + Len(args) + 1
           indirect == [Inst("indirect") EXCEPT !.args = <<fn>> \o argv, !.val = funcval]
       IN  /\ Lowering(g)
           /\ stmt.kind = "DeferStmt"
           /\ FirstLit(stmt) # NoNode => g.litdone
           /\ blocks' = EmitAll(blocks, cursor,
                                <<evalfn>> \o evalargs \o
                                <<indirect, PushDefer(pushdefer, funcval, f.deferptr)>>)
           /\ decls' = d1
           /\ nvals' = funcval
           /\ funs' = [funs EXCEPT ![fi].pos = @ + 1, ![fi].litdone = FALSE]
    /\ lop' = "VisitDeferStmt"
    /\ UNCHANGED <<functions, cursor, lst, drv>>

\* ------------------------------------------------------------------ entry synthesis

\* createMainFunction once main.main is found: main is declared and built
\* to call runtime.main with its parameters and main.main.
createMainEntry ==
    /\ lst = "lowering"
    /\ functions = <<>>
    /\ ModuleNamedFunction(decls, "main.main") # 0
    /\ LET d1 == NamedFunction(decls, "runtime.main")
           runtimeMain == ModuleNamedFunction(d1, "runtime.main")
           d2 == NamedFunction(d1, "main")
           entry == Len(blocks) + 1
           param(i) == nvals + 1 + i
           mainMain == nvals + 4
           result == nvals + 5
       IN  /\ decls' = d2
           /\ blocks' = Append(blocks,
                 [fn |-> 0,
                  insts |-> <<[Inst("bitcast") EXCEPT
                                  !.fn = ModuleNamedFunction(decls, "main.main"),
                                  !.val = mainMain],
                              [Inst("call") EXCEPT
                                  !.fn = runtimeMain,
                                  !.args = <<param(0), param(1), param(2), mainMain>>,
                                  !.val = result],
                              [Inst("ret") EXCEPT !.args = <<result>>]>>])
           /\ cursor' = entry
           /\ nvals' = result
    /\ lst' = "done"
    /\ lop' = "createMainFunction"
    /\ UNCHANGED <<funs, functions, drv>>

\* ------------------------------------------------------------------ the driver

DrvInit ==
    /\ session = NoSession
    /\ ncres = [input |-> "", kind |-> "none", msg |-> Nil]
    /\ modules = <<>>
    /\ cin = [importpath |-> "", reported |-> Nil, raised |-> Nil]
    /\ cres = [kind |-> "none", m |-> 0, err |-> Nil, value |-> Nil, created |-> 0]
    /\ held = {}
    /\ op = "init"

LowInit ==
    /\ funs = <<>>
    /\ functions = <<>>
    /\ blocks = <<>>
    /\ decls = <<>>
    /\ cursor = 0
    /\ nvals = 0
    /\ lst = "lowering"
    /\ lop = "init"

Init == targets \in TargetSets /\ DrvInit /\ LowInit

DoNewCompiler == \E t \in Triples : NewCompiler(t)

DoCompile == \E ip \in ImportPaths, fe \in FrontEnds, be \in BackEnds : Compile(ip, fe, be)

DoDispose == \E i \in 1..Len(modules) : Dispose(i)

Next == DoNewCompiler \/ DoCompile \/ DoDispose

Spec == Init /\ [][Next]_vars

\* ------------------------------------------------------------------ the lowering

InitLower == targets = {} /\ DrvInit /\ LowInit

DoEnterFunction == \E b \in Bodies, n \in ResultCounts : EnterFunction(b, n)

DoMakeDeferBlock == \E p \in {Nil} \cup PanicPoints : makeDeferBlock(p)

NextLower ==
    \/ DoEnterFunction
    \/ EnterFuncLit
    \/ DoMakeDeferBlock
    \/ VisitDeferStmt
    \/ VisitStmt
    \/ LeaveFunction
    \/ createMainEntry

SpecLower == InitLower /\ [][NextLower]_vars

\* ------------------------------------------------------------------ the claims on the driver

\* C1: Module.Dispose is idempotent: however often Dispose is called on a
\* Module, the backend module is disposed once.
C1_DisposeIdempotent ==
    \A i \in 1..Len(modules) : modules[i].backend <= 1

\* C2: a failure that a front-end collaborator reports makes Compile return
\* a nil module and that collaborator's error; Compile never returns a nil
\* module with a nil error.
C2_FrontEndErrorReturned ==
    op = "Compile" =>
        /\ cin.reported # Nil =>
              cres.kind = "return" /\ cres.m = 0 /\ cres.err = cin.reported
        /\ cres.kind = "return" => ~(cres.m = 0 /\ cres.err = Nil)

\* The architecture the resolver looks up for triple t, as the claim reads it:
\* the alias rewritten, the field before the first '-' normalized.
ArchOf(t) ==
    LET triple == IF ToLower(t) = "pnacl" THEN PNaClTriple ELSE t
        dash   == IndexRune(triple, "-")
    IN  parseArch(IF dash < 0 THEN triple ELSE SubSeq(triple, 1, dash))

\* C3: when no registered target is named as the normalized architecture of
\* the caller's triple, NewCompiler returns an error whose message contains
\* the triple as the caller wrote it, returns no compiler, and does not abort.
C3_ResolutionFailureNamesTriple ==
    (op = "NewCompiler" /\ ArchOf(ncres.input) \notin targets) =>
        /\ ncres.kind = "error"
        /\ Contains(ncres.msg, ncres.input)
        /\ session = NoSession

\* C4: when the root unit (import path "main") has no function main.main,
\* Compile returns the error "Could not find main.main" and a nil module, the
\* module has no entry point "main", and the session does not keep the
\* module of this compilation live and undisposed.
C4_MissingEntryLeavesNoModule ==
    (/\ op = "Compile"
     /\ cres.kind = "return"
     /\ cres.created # 0
     /\ cin.importpath = "main"
     /\ "main.main" \notin modules[cres.created].funcs) =>
        /\ cres.err = "Could not find main.main"
        /\ cres.m = 0
        /\ "main" \notin modules[cres.created].funcs
        /\ ~(session.module = cres.created /\ modules[cres.created].backend = 0)

\* C5: when a step that follows the creation of the module panics, Compile
\* leaves by a panic with the same value and the module has been disposed;
\* when Compile returns a module, that module has not been disposed.
C5_DisposalGuard ==
    op = "Compile" =>
        /\ cin.raised # Nil =>
              /\ cres.kind = "panic"
              /\ cres.value = cin.raised
              /\ cres.created # 0
              /\ modules[cres.created].backend = 1
        /\ (cres.kind = "return" /\ cres.m # 0) =>
              /\ cres.m = cres.created
              /\ modules[cres.m].backend = 0

\* A Compile that the step translatePackage left by a panic.
C5_Witness ==
    /\ op = "Compile"
    /\ cres.kind = "panic"
    /\ cin.raised = "ErrBlock"
    /\ cres.created # 0
    /\ modules[cres.created].funcs # {}
    /\ modules[cres.created].backend = 1

\* ------------------------------------------------------------------ the claims on the lowering

Funs == 1..Len(funs)

IsCallTo(i, name) == i.op = "call" /\ i.fn # 0 /\ decls[i.fn] = name

HasInst(b, P(_)) == \E k \in 1..Len(blocks[b].insts) : P(blocks[b].insts[k])

IsLandingPad(i) == i.op = "landingpad"
IsRunDefers(i) == IsCallTo(i, "runtime.rundefers")
IsPushDefer(i) == IsCallTo(i, "runtime.pushdefer")

BlocksOf(fi) == {b \in 1..Len(blocks) : blocks[b].fn = fi}

\* C6: after makeDeferBlock the function has one defer block; it has an
\* unwind block iff hasCallExpr(body); the unwind block holds a landing pad
\* with the single catch-all clause and a branch to the defer block, and
\* nothing else; without an unwind block the function has no landing pad.
C6_EpilogueShape ==
    \A fi \in Funs :
        LET f == funs[fi]
        IN  f.epi = "done" =>
              /\ f.deferblock # 0
              /\ {b \in BlocksOf(fi) : HasInst(b, IsRunDefers)} = {f.deferblock}
              /\ f.unwindblock # 0 <=> hasCallExpr(f.body)
              /\ f.unwindblock # 0 =>
                    LET is == blocks[f.unwindblock].insts
                    IN  /\ Len(is) = 2
                        /\ is[1].op = "landingpad"
                        /\ is[1].clauses = <<"null">>
                        /\ is[2].op = "br"
                        /\ is[2].tgt = f.deferblock
                        /\ f.layout = <<f.entry, f.unwindblock, f.deferblock>>
              /\ f.unwindblock = 0 =>
                    /\ \A b \in BlocksOf(fi) : ~HasInst(b, IsLandingPad)
                    /\ f.layout = <<f.entry, f.deferblock>>

\* A function with a defer and a direct call, and its epilogue.
C6_Witness ==
    \E fi \in Funs :
        /\ funs[fi].epi = "done"
        /\ funs[fi].body = BlockStmt(<<DeferA, CallH>>)
        /\ funs[fi].unwindblock # 0

RuntimeNames ==
    {PersonalityName, "runtime.rundefers", "runtime.pushdefer", "runtime.main", "main"}

Declarations(name) == {i \in 1..Len(decls) : decls[i] = name}

LandingPads ==
    {<<b, k>> \in (1..Len(blocks)) \X (1..2) :
        k <= Len(blocks[b].insts) /\ blocks[b].insts[k].op = "landingpad"}

\* C7: the module holds at most one declaration of each runtime-support
\* name, one of the personality function once a landing pad exists, and
\* every landing pad and call names that one declaration.
C7_RuntimeSymbolsMemoized ==
    /\ \A n \in RuntimeNames : Cardinality(Declarations(n)) <= 1
    /\ LandingPads # {} => Cardinality(Declarations(PersonalityName)) = 1
    /\ \A l \in LandingPads :
          LET i == blocks[l[1]].insts[l[2]]
          IN  i.fn # 0 /\ Declarations(PersonalityName) = {i.fn}
    /\ \A b \in 1..Len(blocks) : \A k \in 1..Len(blocks[b].insts) :
          LET i == blocks[b].insts[k]
          IN  (i.op = "call" /\ i.fn # 0) => Declarations(decls[i.fn]) = {i.fn}

\* Two functions with a landing pad each, and the entry point synthesized.
C7_Witness ==
    /\ Cardinality(LandingPads) = 2
    /\ lst = "done"
    /\ Cardinality(Declarations("runtime.rundefers")) = 1

\* The defer statements that function f has lowered, in order.
LoweredDefers(f) ==
    SelectSeq(SubSeq(f.body.kids, 1, f.pos), LAMBDA n : n.kind = "DeferStmt")

\* The expressions of a defer statement in the order the claim evaluates them.
Operands(stmt) == stmt.kids[1].kids

RECURSIVE Flatten(_)
Flatten(ss) == IF ss = <<>> THEN <<>> ELSE Head(ss) \o Flatten(Tail(ss))

Map(ss, Op(_)) == [i \in 1..Len(ss) |-> Op(ss[i])]

EvalExpr(i) == i.expr

\* The instruction of block b that defines value v.
DefOf(b, v) ==
    LET is == blocks[b].insts
    IN  is[CHOOSE k \in 1..Len(is) : is[k].val = v]

Defines(b, v) == \E k \in 1..Len(blocks[b].insts) : blocks[b].insts[k].val = v

\* run-deferred-calls pops the list that push-deferred-call appended to.
RunDeferred(pushed) == [i \in 1..Len(pushed) |-> pushed[Len(pushed) + 1 - i]]

\* The callee expression behind a push-deferred-call instruction of block b:
\* the expression whose value is the first operand of the indirect-invocation
\* value that the call pushes (NoNode when the call pushes no such value).
PushedCallee(b, push) ==
    IF push.args # <<>> /\ Defines(b, push.args[1])
    THEN LET ind == DefOf(b, push.args[1])
         IN  IF ind.op = "indirect" /\ ind.args # <<>> /\ Defines(b, ind.args[1])
             THEN DefOf(b, ind.args[1]).expr
             ELSE NoNode
    ELSE NoNode

Callee(stmt) == stmt.kids[1].kids[1]

\* C8: each lowered defer statement has its callee evaluated once, then its
\* arguments once each from left to right, then one call of runtime.pushdefer
\* on the indirect-invocation value of these and on the defer anchor of the
\* function on top of the stack; the calls are in the order of the
\* statements, and a last-in-first-out run invokes them in the reverse order.
C8_DeferLowering ==
    \A fi \in Funs :
        LET f      == funs[fi]
            is     == blocks[f.entry].insts
            defers == LoweredDefers(f)
            evals  == SelectSeq(is, LAMBDA i : i.op = "eval")
            pushes == SelectSeq(is, IsPushDefer)
        IN  /\ Map(evals, EvalExpr) = Flatten(Map(defers, Operands))
            /\ Len(pushes) = Len(defers)
            /\ \A n \in 1..Len(pushes) :
                  /\ Len(pushes[n].args) = 2
                  /\ pushes[n].args[2] = f.deferptr
                  /\ f.deferptr # 0
                  /\ Defines(f.entry, pushes[n].args[1])
                  /\ LET ind == DefOf(f.entry, pushes[n].args[1])
                     IN  /\ ind.op = "indirect"
                         /\ Len(ind.args) = Len(Operands(defers[n]))
                         /\ \A a \in 1..Len(ind.args) :
                               /\ Defines(f.entry, ind.args[a])
                               /\ DefOf(f.entry, ind.args[a]).op = "eval"
                               /\ DefOf(f.entry, ind.args[a]).expr = Operands(defers[n])[a]
            /\ RunDeferred([n \in 1..Len(pushes) |-> PushedCallee(f.entry, pushes[n])])
                  = [n \in 1..Len(defers) |-> Callee(defers[Len(defers) + 1 - n])]

\* defer A(); defer func() { defer B() }(); defer C(): all lowered, the
\* literal as a function of its own.
C8_Witness ==
    \E fi \in Funs, gi \in Funs :
        /\ funs[fi].body = BlockStmt(<<DeferA, DeferLit, DeferC>>)
        /\ funs[fi].pos = 3
        /\ funs[gi].body = BlockStmt(<<DeferB>>)
        /\ funs[gi].pos = 1

\* The call expressions the claim counts: outside every function literal and
\* not the call of a defer or go statement itself.
RECURSIVE DirectCall(_)
DirectCall(n) ==
    CASE n.kind = "FuncLit" -> FALSE
      [] n.kind = "CallExpr" -> TRUE
      [] n.kind \in {"DeferStmt", "GoStmt"} ->
            \E k \in 1..Len(n.kids[1].kids) : DirectCall(n.kids[1].kids[k])
      [] OTHER -> \E k \in 1..Len(n.kids) : DirectCall(n.kids[k])

\* C9: hasCallExpr(body) is true iff the body has a call expression outside
\* every function literal that is not itself the call of a defer or go
\* statement (a call among the operands of a defer or go statement counts).
C9_DirectCallDetected ==
    \A fi \in Funs :
        funs[fi].epi = "done" =>
            (hasCallExpr(funs[fi].body) <=> DirectCall(funs[fi].body))

EpilogueBlocks ==
    UNION {{funs[fi].deferblock, funs[fi].unwindblock} : fi \in Funs} \ {0}

\* C10: makeDeferBlock leaves the cursor in the block it found it in, by a
\* return and by a panic alike; the cursor is never left in a defer or unwind
\* block, and no later step adds to a defer or unwind block.
C10_CursorRestored ==
    /\ [](cursor \notin EpilogueBlocks)
    /\ [][lop' = "makeDeferBlock" => cursor' = cursor]_vars
    /\ [][\A b \in EpilogueBlocks : blocks'[b] = blocks[b]]_vars

\* makeDeferBlock panicked after it had redirected the cursor.
C10_Witness ==
    /\ lop = "makeDeferBlock"
    /\ lst = "panicked"
    /\ funs[top(functions)].unwindblock # 0
    /\ blocks[funs[top(functions)].deferblock].insts # <<>>
    /\ cursor = funs[top(functions)].entry

====
